---- MODULE Spec2Model ----
(***************************************************************************)
(* A state-machine model of src/includes/heroprotocol.js: the process-wide *)
(* single-slot archive cache (lastUsed), exports.open, exports.get and the *)
(* value normalizer parseStrings.                                          *)
(*                                                                         *)
(* JavaScript values are tagged records [t |-> tag, v |-> payload]:        *)
(*   "undef" undefined      "null" null         "num"  a number            *)
(*   "str"   a string       "buf"  a Buffer     "arr"  an Array            *)
(*   "obj"   a plain object (payload: function from key to value)          *)
(*   "path"  a string used as a file path (payload: its segments)          *)
(*   "mpq"   an MPQArchive instance (payload: its identity in the heap)    *)
(*   "err"   an Error instance      "msg"  a concatenated message string   *)
(***************************************************************************)
EXTENDS Integers, Sequences, FiniteSets, TLC

VARIABLES
  heap,       \* the MPQArchive instances, by identity (1, 2, ... in order of construction)
  lastUsed,   \* the process-wide cache slot (line 43): an identity, 0 when undefined
  last,       \* the call in progress: its arguments, its result, what it did
  returned,   \* the archive the most recent open that returned one returned (0: none)
  filterSpec  \* the filterSpec the client filters event streams with

vars == <<heap, lastUsed, last, returned, filterSpec>>

-----------------------------------------------------------------------------
(* Bounds of the model *)

\* number of MPQArchive instances that are ever constructed
MaxArchives == 2

\* longest filterSpec handed to get
MaxCriteria == 2

\* longest array among the values handed to parseStrings
MaxLen == 2

-----------------------------------------------------------------------------
(* Section names, src lines 12-19 *)

HEADER == "header"

DETAILS == "replay.details"

INITDATA == "replay.initdata"

GAME_EVENTS == "replay.game.events"

MESSAGE_EVENTS == "replay.message.events"

TRACKER_EVENTS == "replay.tracker.events"

ATTRIBUTES_EVENTS == "replay.attributes.events"

RAW_DATA == "replay.server.battlelobby"

Sections ==
  {HEADER, DETAILS, INITDATA, GAME_EVENTS, MESSAGE_EVENTS, TRACKER_EVENTS,
   ATTRIBUTES_EVENTS, RAW_DATA}

\* the membership tests of lines 119 and 124
SingleShot == {DETAILS, INITDATA, ATTRIBUTES_EVENTS}

Streaming == {GAME_EVENTS, MESSAGE_EVENTS, TRACKER_EVENTS}

-----------------------------------------------------------------------------
(* JavaScript values *)

Undefined == [t |-> "undef", v |-> 0]

Null == [t |-> "null", v |-> 0]

Num(n) == [t |-> "num", v |-> n]

Str(s) == [t |-> "str", v |-> s]

Buf(s) == [t |-> "buf", v |-> s]

Arr(s) == [t |-> "arr", v |-> s]

Obj(f) == [t |-> "obj", v |-> f]

Path(p) == [t |-> "path", v |-> p]

Mpq(id) == [t |-> "mpq", v |-> id]

Err(m) == [t |-> "err", v |-> m]

Bool(b) == [t |-> "bool", v |-> b]

\* the empty object literal {}
EmptyObj == Obj([k \in {} |-> Undefined])

\* ToBoolean: what `!x` and `if (x)` see
Truthy(x) ==
  CASE x.t \in {"undef", "null"} -> FALSE
    [] x.t = "num" -> x.v # 0
    [] x.t = "str" -> x.v # ""
    [] x.t = "bool" -> x.v
    [] OTHER -> TRUE

\* the strict equality === : by value on primitives, by identity on objects
\* (an archive instance is identified by its heap identity; a decoded object
\* or array is never the same object as a caller-built one)
StrictEq(a, b) ==
  /\ a.t = b.t
  /\ a.t \in {"undef", "null", "num", "str", "bool", "path", "mpq"}
  /\ a.v = b.v

\* property read o[k]: undefined when the key is absent
Lookup(o, k) == IF k \in DOMAIN o.v THEN o.v[k] ELSE Undefined

\* a parseStrings whose array branch leaves the falsy items out
RECURSIVE parseStringsDropsEmpty(_)
parseStringsDropsEmpty(data) ==
  IF ~Truthy(data) THEN data
  ELSE IF data.t = "buf" THEN Str(data.v)
  ELSE IF data.t = "arr"
    THEN LET kept == SelectSeq(data.v, Truthy)
         IN Arr([i \in 1..Len(kept) |-> parseStringsDropsEmpty(kept[i])])
  ELSE IF data.t = "obj"
    THEN Obj([k \in DOMAIN data.v |-> parseStringsDropsEmpty(data.v[k])])
  ELSE data

\* parseStrings, lines 31-41
RECURSIVE parseStrings(_)
parseStrings(data) ==
  IF ~Truthy(data) THEN data
  ELSE IF data.t = "buf" THEN Str(data.v)
  ELSE IF data.t = "arr"
    THEN Arr([i \in 1..Len(data.v) |-> parseStrings(data.v[i])])
  ELSE IF data.t = "obj"
    THEN Obj([k \in DOMAIN data.v |-> parseStrings(data.v[k])])
  ELSE data

-----------------------------------------------------------------------------
(* The collaborators: the file system, the container reader (mpyqjs), the  *)
(* protocol registry and the version-specific decoders (heroprotocol/lib).  *)
(* A container's bytes are named by a content id; what the decoders make of *)
(* them is fixed per content.                                               *)

\* process.cwd(), line 53
Cwd == <<"/", "cwd">>

\* path.isAbsolute, line 52
isAbsolute(p) == Len(p) > 0 /\ p[1] = "/"

\* path.join(process.cwd(), file), line 53
join(a, b) == a \o b

\* lines 52-54: a relative path is resolved against the working directory
Resolve(p) == IF isAbsolute(p) THEN p ELSE join(Cwd, p)

\* the replay containers on disk; `new MPQArchive(path)` throws for any other
\* path (line 55)
Disk ==
  (<<"/", "cwd", "a.rep">> :> "A") @@ (<<"/", "cwd", "b.rep">> :> "B") @@
  (<<"/", "tmp", "c.rep">> :> "C") @@ (<<"/", "tmp", "d.rep">> :> "D")

Contents == {"A", "B", "C", "D"}

\* the builds a module heroprotocol/lib/protocol<build> exists for (line 78)
KnownBuilds == {29406, 57797}

\* the m_baseBuild stored in the container's user data header
BuildOf(c) == IF c = "B" THEN 99999 ELSE 57797

\* protocol29406.decodeReplayHeader raises on the content (line 73)
BootRaises(c) == c = "C"

\* archive.protocol.decodeReplayHeader raises on the content (line 86)
VersionRaises(c) == c = "D"

\* protocol29406.decodeReplayHeader(archive.header.userDataHeader.content)
BootHeader(c) ==
  Obj([k \in {"m_signature", "m_version"} |->
        IF k = "m_signature" THEN Buf("Heroes of the Storm replay")
        ELSE Obj([j \in {"m_baseBuild"} |-> Num(BuildOf(c))])])

\* archive.protocol.decodeReplayHeader(...): the version-specific decode adds
\* fields to the bootstrap decode
VersionHeader(c) ==
  Obj([k \in {"m_signature", "m_version", "m_ngdpRootKey"} |->
        IF k = "m_signature" THEN Buf("Heroes of the Storm replay")
        ELSE IF k = "m_ngdpRootKey" THEN Buf("key")
        ELSE Obj([j \in {"m_baseBuild"} |-> Num(BuildOf(c))])])

\* one raw event record of a stream
Event(pid, name) ==
  IF pid = 0 THEN Obj([k \in {"m_name"} |-> Buf(name)])
  ELSE IF name = "" THEN Obj([k \in {"m_playerId"} |-> Num(pid)])
  ELSE Obj([k \in {"m_playerId", "m_name"} |->
             IF k = "m_name" THEN Buf(name) ELSE Num(pid)])

\* the events the generator protocol[decoderMap[section]](bytes) yields
StreamOf(c, section) ==
  IF section = MESSAGE_EVENTS THEN <<>>
  ELSE <<Event(1, "ab"), Event(2, ""), Event(1, ""), Event(0, "cd"),
         Event(3, "ab")>>

\* the number of events the generator yields before it raises; -1: never
RaiseAt(c, section) == IF section = GAME_EVENTS THEN 2 ELSE -1

\* protocol[decoderMap[section]](bytes) for a single-shot section
SingleOf(c, section) ==
  Obj([k \in {"m_title", "m_playerList"} |->
        IF k = "m_title" THEN Buf(c)
        ELSE Arr(<<Obj([j \in {"m_name"} |-> Buf("ab")])>>)])

\* the single-shot decoder raises on the section's bytes
SingleRaises(c, section) == section = INITDATA

\* archive.readFile(RAW_DATA)
RawOf(c) == Buf("lobby")

-----------------------------------------------------------------------------
(* exports.open, lines 45-102 *)

\* a freshly constructed MPQArchive over content c (line 55, or built by the
\* caller from a buffer through exports.MPQArchive, line 5)
NewArchive(c, name) ==
  [content |-> c, filename |-> name, data |-> EmptyObj, baseBuild |-> Undefined,
   protocol |-> Undefined, error |-> Undefined, hasGet |-> FALSE,
   held |-> FALSE]

\* a message that leaves the build out
NotFoundMsgNoBuild(build) ==
  [t |-> "msg", v |-> <<Str("protocol "), Str(" not found")>>]

\* 'protocol ' + archive.baseBuild + ' not found', line 93
NotFoundMsg(build) ==
  [t |-> "msg", v |-> <<Str("protocol "), build, Str(" not found")>>]

\* archive.data[section] = value
SetData(arch, section, value) ==
  [arch EXCEPT !.data =
     Obj([k \in DOMAIN arch.data.v \cup {section} |->
           IF k = section THEN value ELSE arch.data.v[k]])]

\* the outcome of a call of open: the heap and the slot it leaves, what it
\* returns or whether it raises, and what it did on the way
Outcome(h, lu, ret, raised, hit, opened, hdrDecodes, reset) ==
  [heap |-> h, lastUsed |-> lu, ret |-> ret, raised |-> raised, hit |-> hit,
   opened |-> opened, hdrDecodes |-> hdrDecodes, reset |-> reset]

\* a test that takes whatever the slot holds
CacheMissOnlyWhenEmpty(h, lu, file, noCache) == lu = 0

\* the test of line 48 without its noCache operand
CacheMissIgnoringBypass(h, lu, file, noCache) ==
  lu = 0 \/ ~StrictEq(file, h[lu].filename)

\* the test of line 48: TRUE when the cached archive is not used
CacheMiss(h, lu, file, noCache) ==
  lu = 0 \/ ~StrictEq(file, h[lu].filename) \/ noCache

\* lines 69-94 without the decode of line 86: the header cached is the
\* bootstrap decode whatever the protocol
ResolveHeaderBootstrapOnly(h, a, opened) ==
  LET c == h[a].content
      a0 == [h[a] EXCEPT !.data = EmptyObj]
      header == parseStrings(BootHeader(c))
      build == Lookup(Lookup(header, "m_version"), "m_baseBuild")
      a1 == [SetData(a0, HEADER, header) EXCEPT !.baseBuild = build]
      found == build.v \in KnownBuilds
      a2 == IF found THEN [a1 EXCEPT !.protocol = build]
            ELSE [a1 EXCEPT !.error = Err("Cannot find module")]
      a3 == IF Truthy(a2.protocol) THEN [a2 EXCEPT !.hasGet = TRUE]
            ELSE [a2 EXCEPT !.error = NotFoundMsg(build)]
  IN IF BootRaises(c)
       THEN Outcome([h EXCEPT ![a] = a0], a, Undefined, TRUE, FALSE, opened, 1, TRUE)
     ELSE Outcome([h EXCEPT ![a] = a3], a, Mpq(a), FALSE, FALSE, opened, 1, TRUE)

\* lines 69-94 for the archive with identity a: the slot is assigned, the
\* section cache reset, the header decoded and the protocol resolved
ResolveHeader(h, a, opened) ==
  LET c == h[a].content
      a0 == [h[a] EXCEPT !.data = EmptyObj]
      header == parseStrings(BootHeader(c))
      build == Lookup(Lookup(header, "m_version"), "m_baseBuild")
      a1 == [SetData(a0, HEADER, header) EXCEPT !.baseBuild = build]
      found == build.v \in KnownBuilds
      a2 == IF found THEN [a1 EXCEPT !.protocol = build]
            ELSE [a1 EXCEPT !.error = Err("Cannot find module")]
      a3 == IF Truthy(a2.protocol)
            THEN [SetData(a2, HEADER, parseStrings(VersionHeader(c)))
                    EXCEPT !.hasGet = TRUE]
            ELSE [a2 EXCEPT !.error = NotFoundMsg(build)]
  IN IF BootRaises(c)
       THEN Outcome([h EXCEPT ![a] = a0], a, Undefined, TRUE, FALSE, opened, 1, TRUE)
     ELSE IF Truthy(a2.protocol) /\ VersionRaises(c)
       THEN Outcome([h EXCEPT ![a] = a2], a, Undefined, TRUE, FALSE, opened, 2, TRUE)
     ELSE Outcome([h EXCEPT ![a] = a3], a, Mpq(a), FALSE, FALSE, opened,
                  IF Truthy(a2.protocol) THEN 2 ELSE 1, TRUE)

\* lines 50-59: a string is resolved against the working directory and the
\* container opened; a failure of the constructor is caught
OpenPath(h, lu, file) ==
  LET abs == Resolve(file.v)
  IN IF abs \in DOMAIN Disk
       THEN ResolveHeader(Append(h, NewArchive(Disk[abs], Path(abs))), Len(h) + 1, 1)
     ELSE Outcome(h, lu, Err("ENOENT"), FALSE, FALSE, 1, 0, FALSE)

\* an open that empties the slot when it returns an Error
OpenClearingSlotOnError(h, lu, file, noCache) ==
  LET o == IF CacheMiss(h, lu, file, noCache)
             THEN IF file.t = "path" THEN OpenPath(h, lu, file)
                  ELSE IF file.t = "mpq" THEN ResolveHeader(h, file.v, 0)
                  ELSE Outcome(h, lu, Err("Unsupported parameter"), FALSE, FALSE,
                               0, 0, FALSE)
           ELSE Outcome(h, lu, Mpq(lu), FALSE, TRUE, 0, 0, FALSE)
  IN IF o.ret.t = "err" THEN [o EXCEPT !.lastUsed = 0] ELSE o

\* exports.open(file, noCache)
Open(h, lu, file, noCache) ==
  IF CacheMiss(h, lu, file, noCache)
    THEN IF file.t = "path" THEN OpenPath(h, lu, file)
         ELSE IF file.t = "mpq" THEN ResolveHeader(h, file.v, 0)
         ELSE Outcome(h, lu, Err("Unsupported parameter"), FALSE, FALSE, 0, 0, FALSE)
  ELSE Outcome(h, lu, Mpq(lu), FALSE, TRUE, 0, 0, FALSE)

\* the call constructs an MPQArchive
Allocates(h, lu, file, noCache) ==
  /\ CacheMiss(h, lu, file, noCache)
  /\ file.t = "path"
  /\ Resolve(file.v) \in DOMAIN Disk

-----------------------------------------------------------------------------
(* exports.get, lines 105-158 *)

\* a match that asks for every key of the criterion (AND across its fields)
MatchCountAll(event, crit) ==
  IF \A k \in DOMAIN crit.v :
       StrictEq(Lookup(parseStrings(event), k), crit.v[k])
    THEN 1 ELSE 0

\* the number of keys of the criterion the normalized event matches: the
\* loop of lines 134-138 pushes the event once for each of them
MatchCount(event, crit) ==
  Cardinality({k \in DOMAIN crit.v :
                 StrictEq(Lookup(parseStrings(event), k), crit.v[k])})

\* n pushes of the same event
Repeat(x, n) == [i \in 1..n |-> x]

\* lines 130-141 for one bucket: what the loop has pushed to data[i] after
\* the events given
RECURSIVE FilterBucket(_, _)
FilterBucket(events, crit) ==
  IF events = <<>> THEN <<>>
  ELSE Repeat(parseStrings(Head(events)), MatchCount(Head(events), crit))
         \o FilterBucket(Tail(events), crit)

\* lines 128-141: one bucket for each criterion of keys
FilterEvents(events, keys) ==
  Arr([i \in 1..Len(keys.v) |-> Arr(FilterBucket(events, keys.v[i]))])

\* lines 144-147: the events pushed to the cached array
DrainEvents(events) == Arr([i \in 1..Len(events) |-> parseStrings(events[i])])

\* the outcome of a call of get: the outcome of its call of open, and the
\* sections read from the container, the calls of a version-specific section
\* decoder, the diagnostics emitted, and the archive worked on (0: none)
GetOutcome(o, h, ret, raised, reads, decodes, logs, arch) ==
  [heap |-> h, lastUsed |-> o.lastUsed, ret |-> ret, raised |-> raised,
   hit |-> o.hit, opened |-> o.opened, hdrDecodes |-> o.hdrDecodes,
   reset |-> o.reset, reads |-> reads, decodes |-> decodes, logs |-> logs,
   arch |-> arch]

\* lines 117-154: the section is decoded with the archive's protocol
Decode(o, a, section, keys) ==
  LET h == o.heap
      arch == h[a]
      c == arch.content
      stream == StreamOf(c, section)
      cut == RaiseAt(c, section)
      store(value) == [h EXCEPT ![a] = SetData(arch, section, value)]
  IN IF ~Truthy(arch.protocol)
       THEN GetOutcome(o, h, Undefined, FALSE, <<>>, 0, 0, a)
     ELSE IF section \in SingleShot
       THEN IF SingleRaises(c, section)
              THEN GetOutcome(o, h, Undefined, TRUE, <<section>>, 1, 0, a)
            ELSE LET value == parseStrings(SingleOf(c, section))
                 IN GetOutcome(o, store(value), value, FALSE, <<section>>, 1, 0, a)
     ELSE IF section \in Streaming
       THEN IF Truthy(keys)
              THEN IF cut >= 0
                     THEN GetOutcome(o, h, Undefined, TRUE, <<section>>, 1, 0, a)
                   ELSE GetOutcome(o, h, FilterEvents(stream, keys), FALSE,
                                   <<section>>, 1, 0, a)
            ELSE IF cut >= 0
              THEN GetOutcome(o, store(DrainEvents(SubSeq(stream, 1, cut))),
                              Undefined, TRUE, <<section>>, 1, 0, a)
            ELSE GetOutcome(o, store(DrainEvents(stream)), DrainEvents(stream),
                            FALSE, <<section>>, 1, 0, a)
     ELSE IF section = RAW_DATA
       THEN LET value == parseStrings(RawOf(c))
            IN GetOutcome(o, store(value), value, FALSE, <<section>>, 0, 0, a)
     ELSE GetOutcome(o, h, Undefined, FALSE, <<>>, 0, 0, a)

\* the test of line 109 without its archive.error operand
RefusedErrorValueOnly(o) == o.ret.t = "err"

\* lines 109-112: an Error, or an archive with an error state, is reported
Refused(o) == o.ret.t = "err" \/ Truthy(o.heap[o.ret.v].error)

\* a get that returns on a refused archive without the diagnostic of line 110
GetSilentRefusal(h, lu, section, archive, keys) ==
  LET o == Open(h, lu, archive, FALSE)
      a == o.ret.v
  IN IF o.raised
       THEN GetOutcome(o, o.heap, Undefined, TRUE, <<>>, 0, 0, 0)
     ELSE IF Refused(o)
       THEN GetOutcome(o, o.heap, Undefined, FALSE, <<>>, 0, 0,
                       IF o.ret.t = "err" THEN 0 ELSE a)
     ELSE IF Truthy(Lookup(o.heap[a].data, section)) /\ ~Truthy(keys)
       THEN GetOutcome(o, o.heap, o.heap[a].data.v[section], FALSE, <<>>, 0, 0, a)
     ELSE Decode(o, a, section, keys)

\* exports.get(archiveFile, archive, keys)
Get(h, lu, section, archive, keys) ==
  LET o == Open(h, lu, archive, FALSE)
      a == o.ret.v
  IN IF o.raised
       THEN GetOutcome(o, o.heap, Undefined, TRUE, <<>>, 0, 0, 0)
     ELSE IF Refused(o)
       THEN GetOutcome(o, o.heap, Undefined, FALSE, <<>>, 0, 1,
                       IF o.ret.t = "err" THEN 0 ELSE a)
     ELSE IF Truthy(Lookup(o.heap[a].data, section)) /\ ~Truthy(keys)
       THEN GetOutcome(o, o.heap, o.heap[a].data.v[section], FALSE, <<>>, 0, 0, a)
     ELSE Decode(o, a, section, keys)

-----------------------------------------------------------------------------
(* exports.parseHeader and exports.parseFile, lines 166-197 *)

\* the outcome of a call that works on a buffer only
ParseOutcome(ret, raised, decodes) ==
  [ret |-> ret, raised |-> raised, hit |-> FALSE, opened |-> 0,
   hdrDecodes |-> 0, reset |-> FALSE, reads |-> <<>>, decodes |-> decodes,
   logs |-> 0, arch |-> 0]

\* exports.parseHeader(buffer), the buffer being the user data header of a
\* container with content c
ParseHeader(c) ==
  IF BootRaises(c) THEN ParseOutcome(Undefined, TRUE, 1)
  ELSE ParseOutcome(parseStrings(BootHeader(c)), FALSE, 1)

\* exports.parseFile(filename, buffer, build), the buffer being the bytes of
\* the section `filename` of a container with content c
ParseFile(filename, c, build) ==
  IF build \notin KnownBuilds THEN ParseOutcome(Undefined, FALSE, 0)
  ELSE IF filename \in SingleShot
    THEN IF SingleRaises(c, filename) THEN ParseOutcome(Undefined, TRUE, 1)
         ELSE ParseOutcome(parseStrings(SingleOf(c, filename)), FALSE, 1)
  ELSE IF filename \in Streaming
    THEN IF RaiseAt(c, filename) >= 0 THEN ParseOutcome(Undefined, TRUE, 1)
         ELSE ParseOutcome(DrainEvents(StreamOf(c, filename)), FALSE, 1)
  ELSE ParseOutcome(Undefined, FALSE, 0)

-----------------------------------------------------------------------------
(* The calls a client makes *)

\* the strings a client names a replay by
PathInputs ==
  DOMAIN Disk \cup {<<"a.rep">>, <<"/", "cwd", "x.txt">>}

\* the archive instances the client holds: those open returned to it and
\* those it constructed
Held == {i \in 1..Len(heap) : heap[i].held}

\* what a client passes as `file` to open and as `archive` to get
FileInputs ==
  {Path(p) : p \in PathInputs} \cup {Mpq(i) : i \in Held}
    \cup {Undefined, EmptyObj}

\* the sections a client of several replays asks for
Requested == {HEADER, DETAILS}

\* a client of one replay names it by its absolute path or by the instance
\* open returned
OneReplay == {Path(<<"/", "cwd", "a.rep">>)} \cup {Mpq(i) : i \in Held}

\* the criteria of a filterSpec: the fields named, with the values expected
Criteria ==
  {Obj(f) : f \in UNION {{g \in [D -> {Num(1), Num(2), Str("ab")}] :
                            \A k \in D : (g[k].t = "str") <=> (k = "m_name")} :
                           D \in SUBSET {"m_playerId", "m_name"}}}

RECURSIVE SeqsUpTo(_, _)
SeqsUpTo(S, n) ==
  IF n = 0 THEN {<<>>}
  ELSE LET shorter == SeqsUpTo(S, n - 1)
       IN shorter \cup {Append(q, x) : q \in shorter, x \in S}

\* the filterSpecs handed to get
FilterSpecs == {Arr(q) : q \in SeqsUpTo(Criteria, MaxCriteria)}

\* the filterSpec of the scenario [{m_playerId: 1}]
OneFilter == Arr(<<Obj([k \in {"m_playerId"} |-> Num(1)])>>)

\* the record of a call: what the client passed, the slot it found, what it
\* got back, and what the call did
Call(op, file, noCache, section, keys, r) ==
  [op |-> op, file |-> file, noCache |-> noCache, section |-> section,
   keys |-> keys, slot0 |-> lastUsed, tick |-> 1 - last.tick, ret |-> r.ret,
   raised |-> r.raised, hit |-> r.hit, opened |-> r.opened,
   hdrDecodes |-> r.hdrDecodes, reset |-> r.reset, reads |-> r.reads,
   decodes |-> r.decodes, logs |-> r.logs, arch |-> r.arch]

NoCall ==
  [op |-> "none", file |-> Undefined, noCache |-> FALSE, section |-> "",
   keys |-> Undefined, slot0 |-> 0, tick |-> 0, ret |-> Undefined,
   raised |-> FALSE, hit |-> FALSE, opened |-> 0, hdrDecodes |-> 0,
   reset |-> FALSE, reads |-> <<>>, decodes |-> 0, logs |-> 0, arch |-> 0]

\* the archive an open returned is now held by the client
Hold(h, ret) ==
  IF ret.t = "mpq" THEN [h EXCEPT ![ret.v].held = TRUE] ELSE h

Init ==
  /\ heap = <<>>
  /\ lastUsed = 0
  /\ last = NoCall
  /\ returned = 0
  /\ filterSpec = OneFilter

\* a client constructs an MPQArchive from a buffer (exports.MPQArchive)
NewHandle(c) ==
  /\ Len(heap) < MaxArchives
  /\ heap' = Append(heap, [NewArchive(c, Undefined) EXCEPT !.held = TRUE])
  /\ UNCHANGED <<lastUsed, last, returned, filterSpec>>

\* a client calls open(file, noCache)
OpenCall(file, noCache) ==
  LET o == Open(heap, lastUsed, file, noCache)
  IN /\ Allocates(heap, lastUsed, file, noCache) => Len(heap) < MaxArchives
     /\ heap' = Hold(o.heap, o.ret)
     /\ lastUsed' = o.lastUsed
     /\ returned' = IF o.ret.t = "mpq" THEN o.ret.v ELSE returned
     /\ last' = Call("open", file, noCache, "", Undefined,
                     GetOutcome(o, o.heap, o.ret, o.raised, <<>>, 0, 0,
                                IF o.ret.t = "mpq" THEN o.ret.v ELSE 0))
     /\ UNCHANGED filterSpec

\* a client calls get(section, archive, keys)
GetCall(section, archive, keys) ==
  LET g == Get(heap, lastUsed, section, archive, keys)
      o == Open(heap, lastUsed, archive, FALSE)
  IN /\ Allocates(heap, lastUsed, archive, FALSE) => Len(heap) < MaxArchives
     /\ heap' = g.heap
     /\ lastUsed' = g.lastUsed
     /\ returned' = IF o.ret.t = "mpq" THEN o.ret.v ELSE returned
     /\ last' = Call("get", archive, FALSE, section, keys, g)
     /\ UNCHANGED filterSpec

\* the arguments of a parse call other than the section name
ParseArgs(c, build) ==
  Obj([k \in {"buffer", "build"} |-> IF k = "buffer" THEN Buf(c) ELSE build])

\* a client calls parseHeader(buffer)
ParseHeaderCall(c) ==
  /\ last' = Call("parseHeader", ParseArgs(c, Undefined), FALSE, "", Undefined,
                  ParseHeader(c))
  /\ UNCHANGED <<heap, lastUsed, returned, filterSpec>>

\* a parseFile that drops the cached archive
ParseFileCallClearingSlot(filename, c, build) ==
  /\ last' = Call("parseFile", ParseArgs(c, Num(build)), FALSE, filename,
                  Undefined, ParseFile(filename, c, build))
  /\ lastUsed' = 0
  /\ UNCHANGED <<heap, returned, filterSpec>>

\* a client calls parseFile(filename, buffer, build)
ParseFileCall(filename, c, build) ==
  /\ last' = Call("parseFile", ParseArgs(c, Num(build)), FALSE, filename,
                  Undefined, ParseFile(filename, c, build))
  /\ UNCHANGED <<heap, lastUsed, returned, filterSpec>>

\* no call is on record
Idle == last.op = "none"

\* the client has dealt with the result of the call, or with its exception,
\* and drops the record
Return ==
  /\ ~Idle
  /\ last' = NoCall
  /\ UNCHANGED <<heap, lastUsed, returned, filterSpec>>

\* a client of several replays: each call is made, then looked at
Next ==
  \/ Return
  \/ \E c \in Contents : Idle /\ NewHandle(c)
  \/ \E file \in FileInputs, noCache \in BOOLEAN : Idle /\ OpenCall(file, noCache)
  \/ \E section \in Requested, archive \in FileInputs,
        keys \in {Undefined, filterSpec} : Idle /\ GetCall(section, archive, keys)

Spec == Init /\ [][Next]_vars

\* a client of one replay that asks for every section, whole or filtered with
\* a filterSpec of its choice
InitSections ==
  /\ heap = <<>>
  /\ lastUsed = 0
  /\ last = NoCall
  /\ returned = 0
  /\ filterSpec \in FilterSpecs

NextSections ==
  \/ Return
  \/ \E file \in OneReplay : Idle /\ OpenCall(file, FALSE)
  \/ \E section \in Sections, archive \in OneReplay,
        keys \in {Undefined, filterSpec} : Idle /\ GetCall(section, archive, keys)

SpecSections == InitSections /\ [][NextSections]_vars

\* a client that makes its calls back to back: the record of a call stays
\* until the next call replaces it
NextRepeat ==
  \/ \E c \in Contents : NewHandle(c)
  \/ \E file \in FileInputs : OpenCall(file, FALSE)
  \/ \E section \in Requested, archive \in FileInputs :
        GetCall(section, archive, Undefined)

SpecRepeat == Init /\ [][NextRepeat]_vars

\* the builds a client names to parseFile for the bytes of a container: the
\* build its header names, or one no protocol module exists for
ParseBuilds(c) == {BuildOf(c), 12345}

\* a client of one replay that also decodes buffers it holds with parseHeader
\* and parseFile
NextParse ==
  \/ Return
  \/ \E file \in OneReplay : Idle /\ OpenCall(file, FALSE)
  \/ \E section \in Sections, archive \in OneReplay :
        Idle /\ GetCall(section, archive, Undefined)
  \/ \E c \in Contents : Idle /\ ParseHeaderCall(c)
  \/ \E filename \in Sections, c \in Contents :
        \E build \in ParseBuilds(c) : Idle /\ ParseFileCall(filename, c, build)

SpecParse == Init /\ [][NextParse]_vars

\* the leaves of a decoded value: binary, text, numbers, booleans, null and
\* undefined, the falsy ones among them
Leaves ==
  {Buf("ab"), Buf(""), Str("ab"), Str(""), Num(1), Num(0), Bool(TRUE),
   Bool(FALSE), Null, Undefined}

\* the leaves, the arrays of leaves and the objects of leaves
Flat ==
  Leaves \cup {Arr(q) : q \in SeqsUpTo(Leaves, MaxLen)}
    \cup {Obj(f) : f \in UNION {[D -> Leaves] : D \in SUBSET {"m_a", "m_b"}}}

\* the values handed to parseStrings: flat ones, and arrays and objects that
\* hold a flat one
Values ==
  Flat \cup {Arr(<<x>>) : x \in Flat} \cup {Arr(<<Buf("ab"), x>>) : x \in Flat}
    \cup {Obj([k \in {"m_a"} |-> x]) : x \in Flat}

\* parseStrings is applied to a decoded value
NormalizeCall(x) ==
  /\ last' = Call("parseStrings", x, FALSE, "", Undefined,
                  ParseOutcome(parseStrings(x), FALSE, 0))
  /\ UNCHANGED <<heap, lastUsed, returned, filterSpec>>

NextNormalize ==
  \/ Return
  \/ \E x \in Values : Idle /\ NormalizeCall(x)

SpecNormalize == Init /\ [][NextNormalize]_vars

\* what a client names a replay by when the replay may have no decoder set
\* (/cwd/b.rep), may not exist (/cwd/x.txt) or is no identifier at all
ErrorInputs ==
  {Path(<<"/", "cwd", "b.rep">>), Path(<<"/", "cwd", "x.txt">>), Undefined,
   EmptyObj} \cup {Mpq(i) : i \in Held}

\* a client that opens replays, one of them decodable, and asks for every
\* section, whole or filtered, of those that may not be and of the Archives
\* it holds
NextErrors ==
  \/ Return
  \/ Idle /\ NewHandle("B")
  \/ \E file \in ErrorInputs \cup {Path(<<"/", "cwd", "a.rep">>)} :
        Idle /\ OpenCall(file, FALSE)
  \/ \E section \in Sections, archive \in ErrorInputs,
        keys \in {Undefined, filterSpec} : Idle /\ GetCall(section, archive, keys)

\* the filterSpecs of this client: none of its criteria, or one of them
InitErrors ==
  /\ heap = <<>>
  /\ lastUsed = 0
  /\ last = NoCall
  /\ returned = 0
  /\ filterSpec \in {Arr(<<>>)} \cup {Arr(<<c>>) : c \in Criteria}

SpecErrors == InitErrors /\ [][NextErrors]_vars

-----------------------------------------------------------------------------
(* The properties *)

\* two values are the same value
SameValue(a, b) == a.t = b.t /\ a.v = b.v

\* the container an input of open or get names: "" when it names none
ContentOf(file) ==
  IF file.t = "path"
    THEN IF Resolve(file.v) \in DOMAIN Disk THEN Disk[Resolve(file.v)] ELSE ""
  ELSE IF file.t = "mpq" THEN heap[file.v].content
  ELSE ""

\* a container whose header decodes and names a build with no decoder set
UnknownBuild(c) ==
  c \in Contents /\ ~BootRaises(c) /\ BuildOf(c) \notin KnownBuilds

\* the normalized bootstrap decode of the header of container c
NormalBootHeader(c) ==
  Obj([k \in {"m_signature", "m_version"} |->
        IF k = "m_signature" THEN Str("Heroes of the Storm replay")
        ELSE Obj([j \in {"m_baseBuild"} |-> Num(BuildOf(c))])])

\* the archive has a resolved protocol and no error state
ResolvedArchive(a) ==
  a # 0 /\ Truthy(heap[a].protocol) /\ ~Truthy(heap[a].error)

\* the sections cached on archive a
Cached(a) == DOMAIN heap[a].data.v

\* the message names the build
NamesBuild(msg, build) ==
  msg.t = "msg" /\ \E i \in DOMAIN msg.v : SameValue(msg.v[i], Num(build))

\* C6: opening an archive whose baseBuild has no decoder set returns an
\* Archive, not an Error and without raising, whose error state is a message
\* that contains the baseBuild; every get(DETAILS, A) on it returns undefined,
\* does not raise and emits exactly one diagnostic.
C6_ProtocolNotFound ==
  LET c == ContentOf(last.file)
  IN /\ (last.op = "open" /\ UnknownBuild(c)) =>
          /\ ~last.raised
          /\ last.ret.t = "mpq"
          /\ NamesBuild(heap[last.ret.v].error, BuildOf(c))
     /\ (last.op = "get" /\ last.section = DETAILS /\ UnknownBuild(c)) =>
          /\ ~last.raised
          /\ last.ret = Undefined
          /\ last.logs = 1

\* a get(DETAILS, A) on an archive opened with an unknown build
C6_Witness ==
  /\ last.op = "get"
  /\ last.section = DETAILS
  /\ UnknownBuild(ContentOf(last.file))
  /\ last.arch # 0
  /\ NamesBuild(heap[last.arch].error, 99999)
  /\ last.logs = 1

\* C7: open returns an Error, never an Archive, for an input that is neither
\* a string nor a container handle, whatever the slot holds; and a path whose
\* container cannot be opened yields an Error value, nothing is raised.
C7_ErrorForUnsupportedInput ==
  last.op = "open" =>
    /\ last.file.t \notin {"path", "mpq"} =>
         (last.ret.t = "err" /\ ~last.raised)
    /\ (last.file.t = "path" /\ Resolve(last.file.v) \notin DOMAIN Disk) =>
         (last.ret.t = "err" /\ ~last.raised)

\* C8: the slot holds the archive the most recent open that returned an
\* Archive returned; and an open(A, false) that finds another archive in the
\* slot re-reads: it resets the section cache, which then holds the header
\* alone, and decodes the header again.
C8_SlotHoldsLastReturned ==
  /\ lastUsed = returned
  /\ (last.op = "open" /\ ~last.noCache /\ last.ret.t = "mpq"
        /\ last.slot0 # 0 /\ last.slot0 # last.ret.v) =>
       /\ last.reset
       /\ last.hdrDecodes >= 1
       /\ Cached(last.ret.v) = {HEADER}

\* C9: open(A, true) never returns from the cache: a path is opened into a
\* new container handle, and an Archive that is returned has had its section
\* cache reset, so that it holds the header alone, and its header decoded
\* again.
C9_BypassAlwaysRereads ==
  (last.op = "open" /\ last.noCache) =>
    /\ ~last.hit
    /\ last.file.t = "path" => last.opened = 1
    /\ last.ret.t = "mpq" =>
         /\ last.reset
         /\ last.hdrDecodes >= 1
         /\ Cached(last.ret.v) = {HEADER}
         /\ last.file.t = "path" =>
              (last.ret.v # last.slot0 /\ last.ret.v = Len(heap))

\* open(A, true) for a path A whose Archive the slot already holds
C9_Witness ==
  /\ last.op = "open"
  /\ last.noCache
  /\ last.file.t = "path"
  /\ last.slot0 # 0
  /\ StrictEq(heap[last.slot0].filename, Path(Resolve(last.file.v)))
  /\ last.ret.t = "mpq"
  /\ last.ret.v # last.slot0

\* C10 as stated: after an open that found no protocol the section cache
\* holds the normalized bootstrap header, and get(HEADER, A) returns it.
C10_HeaderServedAfterNotFound ==
  LET c == ContentOf(last.file)
  IN (last.op = "get" /\ last.section = HEADER /\ UnknownBuild(c)) =>
       /\ last.arch # 0
       /\ SameValue(Lookup(heap[last.arch].data, HEADER), NormalBootHeader(c))
       /\ SameValue(last.ret, NormalBootHeader(c))

\* C10, amended: after an open that found no protocol the section cache
\* holds the normalized bootstrap header and nothing else; get(HEADER, A)
\* does not return it: it emits one diagnostic and returns undefined.
C10_HeaderCachedNotServed ==
  LET c == ContentOf(last.file)
  IN /\ (last.op = "open" /\ UnknownBuild(c)) =>
          /\ last.ret.t = "mpq"
          /\ Cached(last.ret.v) = {HEADER}
          /\ SameValue(heap[last.ret.v].data.v[HEADER], NormalBootHeader(c))
     /\ (last.op = "get" /\ last.section = HEADER /\ UnknownBuild(c)) =>
          /\ last.arch # 0
          /\ SameValue(Lookup(heap[last.arch].data, HEADER), NormalBootHeader(c))
          /\ last.ret = Undefined
          /\ ~last.raised
          /\ last.logs = 1

\* a get(HEADER, A) on an archive whose cache holds the bootstrap header
C10_Witness ==
  /\ last.op = "get"
  /\ last.section = HEADER
  /\ UnknownBuild(ContentOf(last.file))
  /\ last.arch # 0
  /\ HEADER \in Cached(last.arch)
  /\ last.ret = Undefined

\* C1: when open(A, false) has returned an Archive and open(A, false) is the
\* next call, the second call returns the identical instance and opens no
\* container, decodes no header and does not reset the section cache.
C1_OpenTwiceSameInstance ==
  [][(/\ last.op = "open" /\ ~last.noCache /\ last.ret.t = "mpq"
      /\ last'.tick # last.tick
      /\ last'.op = "open" /\ ~last'.noCache
      /\ SameValue(last'.file, last.file))
       => (/\ SameValue(last'.ret, last.ret)
           /\ last'.opened = 0
           /\ last'.hdrDecodes = 0
           /\ ~last'.reset)]_vars

\* C2: when an unfiltered get(section, A), section not the header, has
\* returned on an Archive with a resolved protocol and the same call is the
\* next call, the second call returns the same value, reads no section from
\* the container and decodes nothing.
C2_UnfilteredGetCached ==
  [][(/\ last.op = "get" /\ ~Truthy(last.keys) /\ ~last.raised
      /\ last.section # HEADER
      /\ last.file.t \in {"path", "mpq"}
      /\ ResolvedArchive(last.arch)
      /\ last'.tick # last.tick
      /\ last'.op = "get" /\ ~Truthy(last'.keys)
      /\ last'.section = last.section
      /\ SameValue(last'.file, last.file))
       => (/\ SameValue(last'.ret, last.ret)
           /\ last'.reads = <<>>
           /\ last'.decodes = 0
           /\ ~last'.reset)]_vars

\* a filtered get of a streaming section has returned its buckets
FilterCase ==
  /\ last.op = "get"
  /\ last.section \in Streaming
  /\ Truthy(last.keys)
  /\ ~last.raised
  /\ ResolvedArchive(last.arch)

\* the full unfiltered decode of the section asked for
FullDecode == DrainEvents(StreamOf(heap[last.arch].content, last.section)).v

\* at least one field the criterion names is present on the event and equals
\* the value expected
MatchesAny(event, crit) ==
  \E k \in DOMAIN crit.v :
    k \in DOMAIN event.v /\ SameValue(event.v[k], crit.v[k])

\* the elements of a sequence
Elements(q) == {q[i] : i \in DOMAIN q}

\* C3: a filtered get of a streaming section with a filterSpec of N criteria
\* returns exactly N buckets, and an event of the full decode is in bucket i
\* if and only if at least one field named in criterion i is present on it
\* and equals the expected value; a bucket holds nothing but such events.
C3_FilterMembership ==
  FilterCase =>
    /\ last.ret.t = "arr"
    /\ Len(last.ret.v) = Len(last.keys.v)
    /\ \A i \in 1..Len(last.keys.v) :
         /\ last.ret.v[i].t = "arr"
         /\ Elements(last.ret.v[i].v) =
              {e \in Elements(FullDecode) : MatchesAny(e, last.keys.v[i])}

\* two criteria, and an event that is in both buckets while another is in
\* one of them only
C3_Witness ==
  /\ FilterCase
  /\ Len(last.keys.v) = 2
  /\ Elements(last.ret.v[1].v) \cap Elements(last.ret.v[2].v) # {}
  /\ Elements(last.ret.v[1].v) # Elements(last.ret.v[2].v)

\* b is a subsequence of s
RECURSIVE IsSubseq(_, _)
IsSubseq(b, s) ==
  IF b = <<>> THEN TRUE
  ELSE IF s = <<>> THEN FALSE
  ELSE IF Head(b) = Head(s) THEN IsSubseq(Tail(b), Tail(s))
  ELSE IsSubseq(b, Tail(s))

\* C4: each bucket of a filtered get is a subsequence of the full unfiltered
\* decode: the events keep their stream order and each event of the stream is
\* appended to a bucket at most once.
C4_BucketIsSubsequence ==
  FilterCase =>
    \A i \in 1..Len(last.keys.v) : IsSubseq(last.ret.v[i].v, FullDecode)

\* C5: a filtered get of a streaming section leaves the section cache of
\* every Archive as it was: each entry is still there with its value, and no
\* entry is added for the section; and an unfiltered get of a streaming
\* section whose decoder does not raise returns the full decode.
C5_FilteredNotCached ==
  [][(/\ Idle
      /\ last'.op = "get"
      /\ last'.section \in Streaming
      /\ last'.file.t \in {"path", "mpq"})
       => (/\ Truthy(last'.keys) =>
                \A a \in DOMAIN heap :
                  /\ \A k \in Cached(a) :
                       /\ k \in DOMAIN heap'[a].data.v
                       /\ heap'[a].data.v[k] = heap[a].data.v[k]
                  /\ last'.section \notin Cached(a) =>
                       last'.section \notin DOMAIN heap'[a].data.v
           /\ (~Truthy(last'.keys) /\ ~last'.raised /\ last'.arch # 0
                 /\ ~Truthy(heap'[last'.arch].error)
                 /\ RaiseAt(heap'[last'.arch].content, last'.section) < 0) =>
                last'.ret = DrainEvents(StreamOf(heap'[last'.arch].content,
                                                 last'.section)))]_vars

\* the get in progress was given an Archive with an error state, or an
\* identifier whose open yields an Error or an Archive with an error state
RefusedCase ==
  /\ Idle
  /\ last'.op = "get"
  /\ LET o == Open(heap, lastUsed, last'.file, FALSE)
     IN /\ ~o.raised
        /\ \/ o.ret.t = "err"
           \/ Truthy(o.heap[o.ret.v].error)

\* C11: a get on an Archive with an error state, or on an identifier whose
\* open yields an Error, for every section and with or without a filterSpec,
\* reads no section from the container, calls no version-specific section
\* decoder, adds no section to any section cache (the header that open itself
\* decodes is all a cache may hold more), emits one diagnostic, returns
\* undefined and does not raise.
C11_RefusedGetDoesNothing ==
  [][RefusedCase =>
       /\ last'.reads = <<>>
       /\ last'.decodes = 0
       /\ last'.logs = 1
       /\ last'.ret = Undefined
       /\ ~last'.raised
       /\ \A a \in DOMAIN heap' :
            DOMAIN heap'[a].data.v \subseteq
              (IF a \in DOMAIN heap THEN Cached(a) ELSE {}) \cup {HEADER}]_vars

\* a filtered get of a streaming section on an Archive with an error state,
\* given as a container handle
C11_Witness ==
  /\ last.op = "get"
  /\ last.section \in Streaming
  /\ Truthy(last.keys)
  /\ last.file.t = "mpq"
  /\ last.arch # 0
  /\ Truthy(heap[last.arch].error)
  /\ last.logs = 1
  /\ last.ret = Undefined

\* C12: a call of parseHeader or parseFile, whatever it is given and whether
\* it returns or raises, leaves the slot, every Archive (its section cache,
\* protocol and error state) and so the result of every following open and
\* get as they were; parseFile for an unknown build returns undefined and
\* does not raise.
C12_ParseCallsStateless ==
  [][last'.op \in {"parseHeader", "parseFile"} =>
       /\ lastUsed' = lastUsed
       /\ heap' = heap
       /\ \A f \in OneReplay, s \in Sections :
            Get(heap', lastUsed', s, f, Undefined) = Get(heap, lastUsed, s, f, Undefined)
       /\ (last'.op = "parseFile"
             /\ Lookup(last'.file, "build").v \notin KnownBuilds) =>
            (last'.ret = Undefined /\ ~last'.raised)]_vars

\* a parseFile that raised while the slot holds an Archive with cached
\* details
C12_Witness ==
  /\ last.op = "parseFile"
  /\ last.raised
  /\ lastUsed # 0
  /\ DETAILS \in Cached(lastUsed)

\* y has the structure of x: binary leaves have become text, a sequence has
\* kept its length and the order of its elements, a mapping its key set, and
\* every other leaf is unchanged
RECURSIVE Preserves(_, _)
Preserves(x, y) ==
  IF x.t = "buf" THEN y = Str(x.v)
  ELSE IF x.t = "arr"
    THEN /\ y.t = "arr"
         /\ Len(y.v) = Len(x.v)
         /\ \A i \in 1..Len(x.v) : Preserves(x.v[i], y.v[i])
  ELSE IF x.t = "obj"
    THEN /\ y.t = "obj"
         /\ DOMAIN y.v = DOMAIN x.v
         /\ \A k \in DOMAIN x.v : Preserves(x.v[k], y.v[k])
  ELSE y = x

\* C13: parseStrings is idempotent, and it preserves structure: a sequence
\* keeps its length and element order, a mapping its key set, and a leaf that
\* is not binary is returned unchanged.
C13_NormalizeIdempotent ==
  last.op = "parseStrings" =>
    /\ parseStrings(last.ret) = last.ret
    /\ Preserves(last.file, last.ret)

\* parseStrings was applied to an array that holds a binary leaf and a falsy
\* value
C13_Witness ==
  /\ last.op = "parseStrings"
  /\ last.file.t = "arr"
  /\ Len(last.file.v) = 2
  /\ last.file.v[1].t = "buf"
  /\ last.file.v[2] \in {Str(""), Num(0), Bool(FALSE), Null}
  /\ last.ret # last.file

\* C14: every entry of a section cache for a streaming section is the
\* complete unfiltered normalized decode of the section, also after a decoder
\* has raised while the stream was drained; an unfiltered get of the section
\* that returns never returns a part of the stream.
C14_StreamCacheComplete ==
  /\ \A a \in DOMAIN heap :
       \A s \in Streaming \cap Cached(a) :
         heap[a].data.v[s] = DrainEvents(StreamOf(heap[a].content, s))
  /\ (last.op = "get" /\ last.section \in Streaming /\ ~Truthy(last.keys)
        /\ ~last.raised /\ ResolvedArchive(last.arch)) =>
       last.ret = FullDecode

\* C15: what an unfiltered get of a single-shot or streaming section returns
\* on an Archive with a resolved protocol, parseFile returns for the bytes of
\* that section and the Archive's build; parseFile returns undefined for the
\* header and for the raw lobby data.
C15_ParseFileMatchesGet ==
  /\ (last.op = "get" /\ ~Truthy(last.keys) /\ ~last.raised
        /\ ResolvedArchive(last.arch)
        /\ last.section \in SingleShot \cup Streaming) =>
       LET p == ParseFile(last.section, heap[last.arch].content,
                          heap[last.arch].protocol.v)
       IN ~p.raised /\ p.ret = last.ret
  /\ (last.op = "parseFile" /\ last.section \in {HEADER, RAW_DATA}) =>
       (last.ret = Undefined /\ ~last.raised)

\* C18: the Archive in the slot has a decoded header in its section cache, a
\* baseBuild, and a resolved protocol or an error state, also after a header
\* decode has raised inside open; so no get that open served from the slot
\* returns undefined without a diagnostic.
C18_SlotWellFormed ==
  /\ lastUsed # 0 =>
       /\ HEADER \in Cached(lastUsed)
       /\ Truthy(heap[lastUsed].baseBuild)
       /\ Truthy(heap[lastUsed].protocol) \/ Truthy(heap[lastUsed].error)
  /\ (last.op = "get" /\ last.hit /\ ~last.raised /\ last.arch # 0
        /\ ~Truthy(heap[last.arch].protocol)) =>
       last.logs = 1

\* C16: when open returns an Archive it has decoded, not one from the slot,
\* the Archive has a resolved protocol, no error state and the normalized
\* version-specific decode as its cached header, or it has no protocol, an
\* error state and the normalized bootstrap decode as its cached header; its
\* baseBuild is the version field of the bootstrap-decoded header.
C16_HeaderResolution ==
  (last.op = "open" /\ last.ret.t = "mpq" /\ ~last.hit) =>
    LET a == heap[last.ret.v]
        c == a.content
        boot == parseStrings(BootHeader(c))
    IN /\ a.baseBuild = Lookup(Lookup(boot, "m_version"), "m_baseBuild")
       /\ \/ /\ Truthy(a.protocol)
             /\ ~Truthy(a.error)
             /\ Lookup(a.data, HEADER) = parseStrings(VersionHeader(c))
          \/ /\ ~Truthy(a.protocol)
             /\ Truthy(a.error)
             /\ Lookup(a.data, HEADER) = boot

\* an open of a container handle that resolved a protocol
C16_Witness ==
  /\ last.op = "open"
  /\ last.file.t = "mpq"
  /\ last.ret.t = "mpq"
  /\ ~last.hit
  /\ last.hdrDecodes = 2
  /\ Truthy(heap[last.ret.v].protocol)

\* C17: an open that returns an Error leaves the slot and every Archive (its
\* section cache, protocol and error state) as they were, and an open that
\* was a cache hit before it is a cache hit after it.
C17_ErrorLeavesSlot ==
  [][(Idle /\ last'.op = "open" /\ last'.ret.t = "err") =>
       /\ lastUsed' = lastUsed
       /\ heap' = heap
       /\ \A f \in FileInputs :
            Open(heap, lastUsed, f, FALSE).hit =>
              /\ Open(heap', lastUsed', f, FALSE).hit
              /\ Open(heap', lastUsed', f, FALSE).ret = Mpq(lastUsed)]_vars

\* an open returned an Error while the slot holds an Archive opened from a
\* path, with cached details
C17_Witness ==
  /\ last.op = "open"
  /\ last.ret.t = "err"
  /\ lastUsed # 0
  /\ heap[lastUsed].filename.t = "path"
  /\ DETAILS \in Cached(lastUsed)
  /\ Open(heap, lastUsed, heap[lastUsed].filename, FALSE).hit

\* what the decoders make of the section of container c: its decode, and for
\* a stream the decodes of its prefixes; for the header both decodes
DecodedFrom(c, section) ==
  IF section = HEADER
    THEN {parseStrings(BootHeader(c)), parseStrings(VersionHeader(c))}
  ELSE IF section \in SingleShot THEN {parseStrings(SingleOf(c, section))}
  ELSE IF section \in Streaming
    THEN {DrainEvents(SubSeq(StreamOf(c, section), 1, n)) :
            n \in 0..Len(StreamOf(c, section))}
  ELSE {parseStrings(RawOf(c))}

\* C19: a get given an identifier of container A works on an Archive of that
\* container whatever the slot held when the call started: it returns
\* undefined or data decoded from A, and after the call the slot holds the
\* Archive of A that the call worked on.
C19_GetBoundToItsArchive ==
  LET c == ContentOf(last.file)
  IN (last.op = "get" /\ c # "") =>
       /\ lastUsed # 0
       /\ heap[lastUsed].content = c
       /\ last.file.t = "mpq" => lastUsed = last.file.v
       /\ last.file.t = "path" =>
            heap[lastUsed].filename = Path(Resolve(last.file.v))
       /\ ~last.raised =>
            /\ last.arch = lastUsed
            /\ last.ret = Undefined \/ last.ret \in DecodedFrom(c, last.section)

\* a get of the details of one container that started while the slot held an
\* Archive of another container with cached details
C19_Witness ==
  /\ last.op = "get"
  /\ last.section = DETAILS
  /\ last.slot0 # 0
  /\ ContentOf(last.file) # ""
  /\ heap[last.slot0].content # ContentOf(last.file)
  /\ DETAILS \in Cached(last.slot0)
  /\ last.ret = parseStrings(SingleOf(ContentOf(last.file), DETAILS))

====
